---- MODULE Spec2Model ----
(***************************************************************************)
(* Model of syt.py: an advisory check-out / check-in lock kept in a remote *)
(* Synapse table named syt_log, one per Project.                           *)
(*                                                                         *)
(* The remote store (entities, tables, rows, table etag) is shared state;  *)
(* every Syt object (one per process in main, reusable as a class) is a    *)
(* session.  A command is split at its remote calls, so that sessions can  *)
(* interleave: load entity + list tables, create table, query + resolve,   *)
(* store.  Spec runs the commands one at a time, SpecConc interleaves them.*)
(***************************************************************************)
EXTENDS Integers, Sequences, FiniteSets, TLC

VARIABLES now, tables, syt, pc, cmd, loc, out, hist, walk

vars == <<now, tables, syt, pc, cmd, loc, out, hist, walk>>

(* ------------------------------ bounds -------------------------------- *)
MaxClock == 2
MaxRows == 2
MaxNodes == 4

\* s1 is a Syt object that user A keeps and runs command after command on;
\* s2 is a process of main: it logs in as either user, runs one command, exits.
Sessions == {"s1", "s2"}
Users == {"A", "B"}
Kept == {"s1"}
OneShot == {"s2"}

(* ----------------------------- constants ------------------------------ *)
SYT_TABLE_NAME == "syt_log"
SYT_COL_USER == "user"
SYT_COL_ENTITY == "entity"
SYT_COL_CHECKED_OUT == "checked_out"
SYT_COL_CHECKED_IN == "checked_in"
SYT_COL_MESSAGE == "message"

\* Python None, per column type (TLC compares values of one type only).
None == -1
NoMessage == "None"
NoEntity == "None"
NoTable == 0
NoEtag == -1

Messages == {NoMessage, "done"}

\* The entity hierarchy of the store: Project P1 holds Folder D1 (with File
\* F1 in it) and Link L1, Project P2 holds File F2.  entityType is the last
\* segment of the entity's type path.
Entities == {"P1", "P2", "D1", "F1", "F2", "L1"}
entityType ==
    [P1 |-> "Project", P2 |-> "Project", D1 |-> "Folder",
     F1 |-> "FileEntity", F2 |-> "FileEntity", L1 |-> "Link"]
parentId ==
    [P1 |-> NoEntity, P2 |-> NoEntity, D1 |-> "P1", F1 |-> "D1", F2 |-> "P2",
     L1 |-> "P1"]
\* The entities the commands of each specification are given.
Targets == {"L1", "F1", "F2"}
TargetsP1 == {"P1", "D1", "F1"}
TargetsConc == {"F1"}

\* entityType.split('.')[-1].replace('Entity', '') on the last path segment.
ReplaceEntity(segment) ==
    CASE segment = "FileEntity" -> "File"
      [] segment = "TableEntity" -> "Table"
      [] OTHER -> segment

Lockable_NotProject(entityId) == ReplaceEntity(entityType[entityId]) # "Project"

Lockable(entityId) == ReplaceEntity(entityType[entityId]) \in {"Folder", "File"}

ProjectWalk_OneStep(parentOf, typeOf, child) == <<parentOf[child]>>

\* _load_project_for (164-173) in a hierarchy given by its parentId and
\* entityType maps: the entities it gets, in order; the last is returned.
RECURSIVE ProjectWalk(_, _, _)
ProjectWalk(parentOf, typeOf, child) ==
    LET parent == parentOf[child]
    IN  IF typeOf[parent] # "Project"
        THEN <<parent>> \o ProjectWalk(parentOf, typeOf, parent)
        ELSE <<parent>>

_load_project_for(child) ==
    LET visited == ProjectWalk(parentId, entityType, child)
    IN  visited[Len(visited)]

(* ------------------------------ the rows ------------------------------ *)
\* A row as a query returns it: its row id, then the five columns.
Headers ==
    <<"ROW_ID", SYT_COL_USER, SYT_COL_ENTITY, SYT_COL_CHECKED_OUT,
      SYT_COL_CHECKED_IN, SYT_COL_MESSAGE>>

_get_table_column_index(headers, column_name) ==
    CHOOSE index \in 1..Len(headers) :
        /\ headers[index] = column_name
        /\ \A j \in 1..(index - 1) : headers[j] # column_name

\* calendar.timegm(date_time.timetuple()) * 1000, date_time in whole seconds.
_get_synapse_timestamp(date_time) == date_time * 1000

(* --------------------------- the remote store -------------------------- *)
\* Permutations of 1..n, as sequences.
Perms(n) == {p \in [1..n -> 1..n] : \A i, j \in 1..n : i # j => p[i] # p[j]}

Ordered(a, b, order) == IF order = "asc" THEN a <= b ELSE a >= b

\* tableQuery("select * from T ORDER BY checked_out <order>"): every result the
\* store may return; rows with equal checked_out come in any order.
tableQuery(tableId, order) ==
    LET rows == tables[tableId].rows
        col == _get_table_column_index(Headers, SYT_COL_CHECKED_OUT)
        n == Len(rows)
    IN  {[rows |-> [i \in 1..n |-> rows[p[i]]],
          etag |-> tables[tableId].etag,
          headers |-> Headers] :
            p \in {q \in Perms(n) :
                     \A i \in 1..n : \A j \in 1..n :
                        i < j => Ordered(rows[q[i]][col], rows[q[j]][col], order)}}

\* store(Table(id, [values])): an insert, which the store always accepts.
InsertRow(table, values) ==
    [table EXCEPT !.rows = Append(@, <<Len(@) + 1>> \o values), !.etag = @ + 1]

\* store(Table(id, [row], etag=etag)): accepted when no etag is passed or the
\* etag is the table's current one.
UpdateAccepted(table, etag) == etag = NoEtag \/ etag = table.etag

UpdateRow(table, row) ==
    [table EXCEPT !.rows[row[1]] = row, !.etag = @ + 1]

SytTables_NoMatch(project) == {}

\* getChildren(project, ["table"]) and the name test, lines 180-183.
SytTables(project) ==
    {t \in DOMAIN tables :
        tables[t].parent = project /\ tables[t].name = SYT_TABLE_NAME}

NewSchema(project) ==
    [parent |-> project, name |-> SYT_TABLE_NAME, etag |-> 0, rows |-> <<>>]

(* --------------------------- session state ---------------------------- *)
NewSyt(user, date_time) ==
    [user |-> user, date_time |-> date_time,
     _project |-> NoEntity, _entity |-> NoEntity, _table |-> NoTable]

\* No process: main has not started, or has exited.
NoSyt == NewSyt("", 0)

NoCmd == [op |-> "none", entityId |-> NoEntity, force |-> FALSE]
NoLoc == [row |-> <<>>, etag |-> NoEtag, queries |-> 0, stores |-> 0]
NoOut == [s |-> "", user |-> "", op |-> "none", entityId |-> NoEntity,
          force |-> FALSE, show_all |-> FALSE, status |-> "", type |-> "", blocks |-> <<>>,
          queries |-> 0, stores |-> 0, table |-> NoTable, row |-> <<>>]
NoHist == [phase |-> "none", entity |-> NoEntity, user |-> ""]

\* No walk of a drawn hierarchy: the commands run in the hierarchy above.
NoWalk == [parentId |-> <<>>, entityType |-> <<>>, child |-> 0, visited |-> <<>>]

Init ==
    /\ now = 1
    /\ tables = <<[parent |-> "P1", name |-> "data", etag |-> 0, rows |-> <<>>]>>
    /\ syt = [s \in Sessions |-> IF s \in Kept THEN NewSyt("A", 1) ELSE NoSyt]
    /\ pc = [s \in Sessions |-> "idle"]
    /\ cmd = [s \in Sessions |-> NoCmd]
    /\ loc = [s \in Sessions |-> NoLoc]
    /\ out = NoOut
    /\ hist = NoHist
    /\ walk = NoWalk

(* ------------------------------ reports ------------------------------- *)
CheckedOut == "Entity successfully checked out."
AlreadyCheckedOut == "Entity is already checked out."
CheckedIn == "Entity successfully checked in."
NotCheckedOut == "Entity is not currently checked out."
Aborting == "Only Folders or Files can be checked in/out. Aborting."
LogShown == "log"
ConflictRaised == "SynapseHTTPError"

\* out is what the step just taken reported: the status line of the command
\* that ended with it, its log blocks and its remote calls; NoOut otherwise.
Report(s, status, show_all, blocks, queries, stores) ==
    [s |-> s, user |-> syt[s].user, op |-> cmd[s].op, entityId |-> cmd[s].entityId,
     force |-> cmd[s].force, show_all |-> show_all, status |-> status, type |-> "", blocks |-> blocks,
     queries |-> queries, stores |-> stores,
     table |-> syt[s]._table, row |-> loc[s].row]

\* The command of session s returns (or raises); a process of main exits.
Return(s, status, show_all, blocks, queries, stores) ==
    /\ pc' = [pc EXCEPT ![s] = "idle"]
    /\ syt' = IF s \in OneShot THEN [syt EXCEPT ![s] = NoSyt] ELSE syt
    /\ cmd' = [cmd EXCEPT ![s] = NoCmd]
    /\ loc' = [loc EXCEPT ![s] = NoLoc]
    /\ out' = Report(s, status, show_all, blocks, queries, stores)

(* ------------------------ the log of an entity ------------------------ *)
IsOpen(row) == row[_get_table_column_index(Headers, SYT_COL_CHECKED_IN)] = None
RowEntity(row) == row[_get_table_column_index(Headers, SYT_COL_ENTITY)]
RowUser(row) == row[_get_table_column_index(Headers, SYT_COL_USER)]

\* The open rows for entityId in table t, as row ids.
OpenRowsIn(t, entityId) ==
    {i \in 1..Len(tables[t].rows) :
        IsOpen(tables[t].rows[i]) /\ RowEntity(tables[t].rows[i]) = entityId}

\* The open rows for entityId in the log of its owning Project.
OpenRows(entityId) ==
    UNION {{<<t, i>> : i \in OpenRowsIn(t, entityId)} :
             t \in SytTables(_load_project_for(entityId))}

TotalRows ==
    LET RECURSIVE Sum(_)
        Sum(t) == IF t = 0 THEN 0 ELSE Len(tables[t].rows) + Sum(t - 1)
    IN  Sum(Len(tables))

(* ------------------------------ commands ------------------------------ *)
\* _load_entity (140-162) with the listing of _ensure_access_log (179-186):
\* the entity and its Project are loaded, the Project's tables are listed and
\* the one named syt_log, when there is one, becomes self._table.  force is
\* the argument of the command that called: it stays with the command.
_load_entity(s, self, op, entityId, force) ==
    /\ pc[s] = "idle"
    /\ IF Lockable(entityId)
       THEN LET project == _load_project_for(entityId)
                listed == SytTables(project)
            IN  \E t \in (IF listed = {} THEN {self._table} ELSE listed) :
                  \* the bound on the rows: no more checkouts than MaxRows
                  /\ op = "checkout" =>
                        TotalRows
                          + Cardinality({x \in Sessions : cmd[x].op = "checkout"})
                          < MaxRows
                  /\ syt' = [syt EXCEPT ![s] =
                                 [self EXCEPT !._entity = entityId,
                                              !._project = project,
                                              !._table = t]]
                  /\ pc' = [pc EXCEPT ![s] =
                                IF t = NoTable THEN "_ensure_access_log" ELSE op]
                  /\ cmd' = [cmd EXCEPT ![s] =
                                [op |-> op, entityId |-> entityId,
                                 force |-> force]]
                  /\ loc' = [loc EXCEPT ![s] = NoLoc]
                  /\ out' = NoOut
                  /\ UNCHANGED <<now, tables, hist>>
       ELSE /\ syt' = IF s \in OneShot
                      THEN [syt EXCEPT ![s] = NoSyt]
                      ELSE [syt EXCEPT ![s] =
                              [self EXCEPT !._entity = NoEntity,
                                           !._project = NoEntity]]
            /\ out' = [s |-> s, user |-> self.user, op |-> op,
                       entityId |-> entityId, force |-> force,
                       show_all |-> FALSE, status |-> Aborting,
                       type |-> ReplaceEntity(entityType[entityId]),
                       blocks |-> <<>>, queries |-> 0, stores |-> 0,
                       table |-> self._table, row |-> <<>>]
            /\ hist' = NoHist
            /\ UNCHANGED <<now, tables, pc, cmd, loc>>

_ensure_access_log_Relist(s) ==
    /\ pc[s] = "_ensure_access_log"
    /\ IF SytTables(syt[s]._project) = {}
       THEN /\ tables' = Append(tables, NewSchema(syt[s]._project))
            /\ syt' = [syt EXCEPT ![s]._table = Len(tables) + 1]
       ELSE /\ tables' = tables
            /\ \E t \in SytTables(syt[s]._project) :
                  syt' = [syt EXCEPT ![s]._table = t]
    /\ pc' = [pc EXCEPT ![s] = cmd[s].op]
    /\ loc' = [loc EXCEPT ![s].stores = @ + 1]
    /\ out' = NoOut
    /\ UNCHANGED <<now, cmd, hist>>

\* _ensure_access_log, lines 188-196: no table is bound, one is created.
_ensure_access_log(s) ==
    /\ pc[s] = "_ensure_access_log"
    /\ tables' = Append(tables, NewSchema(syt[s]._project))
    /\ syt' = [syt EXCEPT ![s]._table = Len(tables) + 1]
    /\ pc' = [pc EXCEPT ![s] = cmd[s].op]
    /\ loc' = [loc EXCEPT ![s].stores = @ + 1]
    /\ out' = NoOut
    /\ UNCHANGED <<now, cmd, hist>>

_load_syt_log(s, order) == tableQuery(syt[s]._table, order)

RowMatches_AnyState(row, headers, by_user, ownerId, entityId) ==
    LET user_col == _get_table_column_index(headers, SYT_COL_USER)
        entity_col == _get_table_column_index(headers, SYT_COL_ENTITY)
    IN  /\ (~by_user \/ (by_user /\ row[user_col] = ownerId))
        /\ row[entity_col] = entityId

\* The test of line 125.
RowMatches(row, headers, by_user, ownerId, entityId) ==
    LET user_col == _get_table_column_index(headers, SYT_COL_USER)
        entity_col == _get_table_column_index(headers, SYT_COL_ENTITY)
        checked_in_col == _get_table_column_index(headers, SYT_COL_CHECKED_IN)
    IN  /\ (~by_user \/ (by_user /\ row[user_col] = ownerId))
        /\ row[entity_col] = entityId
        /\ row[checked_in_col] = None

_find_checked_out_row_None(s, syt_log, by_user) ==
    [row |-> <<>>, etag |-> syt_log.etag, headers |-> syt_log.headers]

_find_checked_out_row_Last(s, syt_log, by_user) ==
    LET matching == {i \in 1..Len(syt_log.rows) :
                        RowMatches(syt_log.rows[i], syt_log.headers, by_user,
                                   syt[s].user, syt[s]._entity)}
        last == CHOOSE i \in matching : \A j \in matching : i >= j
    IN  [row |-> IF matching = {} THEN <<>> ELSE syt_log.rows[last],
         etag |-> syt_log.etag,
         headers |-> syt_log.headers]

\* Lines 118-129 on a log already loaded: the first matching row, or <<>>.
_find_checked_out_row(s, syt_log, by_user) ==
    LET matching == {i \in 1..Len(syt_log.rows) :
                        RowMatches(syt_log.rows[i], syt_log.headers, by_user,
                                   syt[s].user, syt[s]._entity)}
        first == CHOOSE i \in matching : \A j \in matching : i <= j
    IN  [row |-> IF matching = {} THEN <<>> ELSE syt_log.rows[first],
         etag |-> syt_log.etag,
         headers |-> syt_log.headers]

\* The commands begin: line 40, line 58, line 82.  The arguments message and
\* show_all are drawn by the steps that read them (lines 73 and 97); force is
\* read nowhere.
checkout(s, self, entityId) == _load_entity(s, self, "checkout", entityId, FALSE)

checkin(s, self, entityId, force) ==
    _load_entity(s, self, "checkin", entityId, force)

log(s, self, entityId) == _load_entity(s, self, "log", entityId, FALSE)

\* by_user of the two calls of _find_checked_out_row (lines 43, 61).
checkout_by_user_True == TRUE

checkout_by_user == FALSE

checkin_by_user_False == FALSE

checkin_by_user == TRUE

checkin_restrict_Force(force) == ~force

\* Line 61 in a checkin called with force: by_user is the literal True.
checkin_restrict(force) == checkin_by_user

\* The etag given to store: none by checkout (48-49), the one read by checkin (75).
checkout_etag_Read(etag) == etag

checkout_etag(etag) == NoEtag

checkin_etag_None(etag) == NoEtag

checkin_etag(etag) == etag

\* The round trip the history follows: a checkout of an entity that had no open
\* row, then the checkin of that entity by that user as the next command.
HistOut(s) ==
    IF OpenRows(cmd[s].entityId) = {}
    THEN [phase |-> "out", entity |-> cmd[s].entityId, user |-> syt[s].user]
    ELSE NoHist

HistIn(s) ==
    IF hist = [phase |-> "out", entity |-> cmd[s].entityId, user |-> syt[s].user]
    THEN [hist EXCEPT !.phase = "in"]
    ELSE NoHist

find_order_desc == "desc"

\* The order of the resolver's read: line 110 leaves the default of line 131.
find_order == "asc"

\* checkout, line 43 and the else branch 51-52.
checkout_find(s) ==
    /\ pc[s] = "checkout"
    /\ \E syt_log \in _load_syt_log(s, find_order) :
         LET found == _find_checked_out_row(s, syt_log, checkout_by_user)
         IN  IF found.row = <<>>
             THEN /\ pc' = [pc EXCEPT ![s] = "store"]
                  /\ loc' = [loc EXCEPT ![s].etag = found.etag,
                                        ![s].queries = @ + 1]
                  /\ out' = NoOut
                  /\ UNCHANGED <<syt, cmd, hist>>
             ELSE /\ Return(s, AlreadyCheckedOut, FALSE, <<>>,
                            loc[s].queries + 1, loc[s].stores)
                  /\ hist' = NoHist
    /\ UNCHANGED <<now, tables>>

\* checkout, lines 45-50.
checkout_store(s) ==
    /\ pc[s] = "store"
    /\ cmd[s].op = "checkout"
    /\ LET t == syt[s]._table
           new_row == <<syt[s].user, syt[s]._entity,
                        _get_synapse_timestamp(syt[s].date_time), None, NoMessage>>
       IN  IF UpdateAccepted(tables[t], checkout_etag(loc[s].etag))
           THEN /\ tables' = [tables EXCEPT ![t] = InsertRow(@, new_row)]
                /\ Return(s, CheckedOut, FALSE, <<>>, loc[s].queries, loc[s].stores + 1)
           ELSE /\ tables' = tables
                /\ Return(s, ConflictRaised, FALSE, <<>>, loc[s].queries, loc[s].stores + 1)
    /\ hist' = HistOut(s)
    /\ UNCHANGED now

\* checkin, line 61 and the branch 63-64.
checkin_find(s) ==
    /\ pc[s] = "checkin"
    /\ \E syt_log \in _load_syt_log(s, find_order) :
         LET found == _find_checked_out_row(s, syt_log,
                                            checkin_restrict(cmd[s].force))
         IN  IF found.row = <<>>
             THEN /\ Return(s, NotCheckedOut, FALSE, <<>>,
                            loc[s].queries + 1, loc[s].stores)
                  /\ hist' = HistIn(s)
             ELSE /\ pc' = [pc EXCEPT ![s] = "store"]
                  /\ loc' = [loc EXCEPT ![s].row = found.row,
                                        ![s].etag = found.etag,
                                        ![s].queries = @ + 1]
                  /\ out' = NoOut
                  /\ UNCHANGED <<syt, cmd, hist>>
    /\ UNCHANGED <<now, tables>>

CheckinRow_MessageOnly(row, headers, timestamp, message) ==
    [row EXCEPT ![_get_table_column_index(headers, SYT_COL_MESSAGE)] = message]

\* The row as checkin changes it, lines 67-73.
CheckinRow(row, headers, timestamp, message) ==
    LET checked_in_col == _get_table_column_index(headers, SYT_COL_CHECKED_IN)
        message_col == _get_table_column_index(headers, SYT_COL_MESSAGE)
    IN  [row EXCEPT ![checked_in_col] = timestamp, ![message_col] = message]

\* checkin, lines 66-76: the conditional update; a stale etag raises.
checkin_store(s, message) ==
    /\ pc[s] = "store"
    /\ cmd[s].op = "checkin"
    /\ LET t == syt[s]._table
           row == CheckinRow(loc[s].row, Headers,
                             _get_synapse_timestamp(syt[s].date_time),
                             message)
       IN  IF UpdateAccepted(tables[t], checkin_etag(loc[s].etag))
           THEN /\ tables' = [tables EXCEPT ![t] = UpdateRow(@, row)]
                /\ Return(s, CheckedIn, FALSE, <<>>, loc[s].queries, loc[s].stores + 1)
           ELSE /\ tables' = tables
                /\ Return(s, ConflictRaised, FALSE, <<>>, loc[s].queries, loc[s].stores + 1)
    /\ hist' = HistIn(s)
    /\ UNCHANGED now

\* One printed block of log, lines 99-104.
Block(row, headers) ==
    <<row[_get_table_column_index(headers, SYT_COL_USER)],
      row[_get_table_column_index(headers, SYT_COL_ENTITY)],
      row[_get_table_column_index(headers, SYT_COL_CHECKED_OUT)],
      row[_get_table_column_index(headers, SYT_COL_CHECKED_IN)],
      row[_get_table_column_index(headers, SYT_COL_MESSAGE)]>>

\* The test of line 97, negated: the row is printed.
LogShows(row, headers, show_all, entityId) ==
    ~(~show_all /\ row[_get_table_column_index(headers, SYT_COL_ENTITY)] # entityId)

log_order_asc == "asc"

log_order == "desc"

\* log, lines 84-104.
log_emit(s, show_all) ==
    /\ pc[s] = "log"
    /\ \E result \in _load_syt_log(s, log_order) :
         LET Shown(row) == LogShows(row, result.headers, show_all, syt[s]._entity)
             shown == SelectSeq(result.rows, Shown)
             blocks == [i \in 1..Len(shown) |-> Block(shown[i], result.headers)]
         IN  Return(s, LogShown, show_all, blocks, loc[s].queries + 1, loc[s].stores)
    /\ hist' = NoHist
    /\ UNCHANGED <<now, tables>>

(* --------------------------- the environment -------------------------- *)
\* A second passes.
Tick ==
    /\ now < MaxClock
    /\ now' = now + 1
    /\ out' = NoOut
    /\ UNCHANGED <<tables, syt, pc, cmd, loc, hist>>

\* The dispatch of main, lines 250-255.
Call(s, self, command, entity_id, force) ==
    CASE command = "checkin" -> checkin(s, self, entity_id, force)
      [] command = "checkout" -> checkout(s, self, entity_id)
      [] OTHER -> log(s, self, entity_id)

\* main, lines 230-255: a process starts (the module is imported and the
\* default of _get_synapse_timestamp evaluated, line 206), logs in (25-34) and
\* begins its command.
main(s, user, command, entity_id, force) ==
    Call(s, NewSyt(user, now), command, entity_id, force)

AllIdle == \A s \in Sessions : pc[s] = "idle"

Commands == {"checkout", "checkin", "log"}
Locking == {"checkout", "checkin"}
ForceOf(command) == IF command = "checkin" THEN BOOLEAN ELSE {FALSE}

\* A command on the kept object.
Command(s, commands, targets) ==
    \E command \in commands, entity_id \in targets :
        \E force \in ForceOf(command) : Call(s, syt[s], command, entity_id, force)

\* A command line.
Process(s, commands, targets) ==
    \E user \in Users, command \in commands, entity_id \in targets :
        \E force \in ForceOf(command) : main(s, user, command, entity_id, force)

\* The steps of checkout and checkin after the entity is loaded.
Step(s) ==
    \/ _ensure_access_log(s)
    \/ checkout_find(s)
    \/ checkout_store(s)
    \/ checkin_find(s)
    \/ \E message \in Messages : checkin_store(s, message)

\* The step of log after the entity is loaded.
LogStep(s) == \E show_all \in BOOLEAN : log_emit(s, show_all)

\* Commands run one at a time, on entities of both Projects, within one second.
Next ==
    /\ \/ \E s \in Kept : AllIdle /\ Command(s, Commands, Targets)
       \/ \E s \in OneShot : AllIdle /\ Process(s, Commands, Targets)
       \/ \E s \in Sessions : Step(s)
       \/ \E s \in Sessions : LogStep(s)
    /\ UNCHANGED walk

Spec == Init /\ [][Next]_vars

\* Commands run one at a time, on the entities of Project P1, as time passes.
NextClock ==
    /\ \/ Tick
       \/ \E s \in Kept : AllIdle /\ Command(s, Commands, TargetsP1)
       \/ \E s \in OneShot : AllIdle /\ Process(s, Commands, TargetsP1)
       \/ \E s \in Sessions : Step(s)
       \/ \E s \in Sessions : LogStep(s)
    /\ UNCHANGED walk

SpecClock == Init /\ [][NextClock]_vars

\* checkout and checkin of the two sessions interleave at their remote calls.
NextConc ==
    /\ \/ Tick
       \/ \E s \in Kept : Command(s, Locking, TargetsConc)
       \/ \E s \in OneShot : Process(s, Locking, TargetsConc)
       \/ \E s \in Sessions : Step(s)
    /\ UNCHANGED walk

SpecConc == Init /\ [][NextConc]_vars

(* ------------------------ the walk to the Project ---------------------- *)
\* The hierarchies of MaxNodes entities: entity 1 is the root, a Project with
\* no parent (0); the parent of every other entity is an entity before it, so
\* no entity is its own ancestor.  A Project may hold Projects.
Kinds == {"Project", "Folder", "FileEntity"}

Hierarchies ==
    {p \in [1..MaxNodes -> 0..(MaxNodes - 1)] :
        /\ p[1] = 0
        /\ \A i \in 2..MaxNodes : 1 <= p[i] /\ p[i] < i}

Typings == {ty \in [1..MaxNodes -> Kinds] : ty[1] = "Project"}

InitWalk ==
    /\ now = 1
    /\ tables = <<>>
    /\ syt = [s \in Sessions |-> NoSyt]
    /\ pc = [s \in Sessions |-> "idle"]
    /\ cmd = [s \in Sessions |-> NoCmd]
    /\ loc = [s \in Sessions |-> NoLoc]
    /\ out = NoOut
    /\ hist = NoHist
    /\ \E p \in Hierarchies, ty \in Typings :
          walk = [parentId |-> p, entityType |-> ty, child |-> 0, visited |-> <<>>]

\* Line 151: _load_entity calls _load_project_for on a Folder or a File.
WalkCall(child) ==
    /\ walk.child = 0
    /\ ReplaceEntity(walk.entityType[child]) \in {"Folder", "File"}
    /\ walk' = [walk EXCEPT
                   !.child = child,
                   !.visited = ProjectWalk(walk.parentId, walk.entityType, child)]
    /\ UNCHANGED <<now, tables, syt, pc, cmd, loc, out, hist>>

NextWalk == \E child \in 1..MaxNodes : WalkCall(child)

SpecWalk == InitWalk /\ [][NextWalk]_vars

(* ----------------------------- properties ----------------------------- *)
IsClosed(row) == ~IsOpen(row)

\* The session takes a step of a command `op`: it begins it, or goes on with it.
Runs(s, op) == pc'[s] # pc[s] /\ (cmd[s].op = op \/ cmd'[s].op = op)
Target(s) == IF cmd[s].op = "none" THEN cmd'[s].entityId ELSE cmd[s].entityId
Caller(s) == IF syt[s].user = "" THEN syt'[s].user ELSE syt[s].user

\* C1: a checkout of an entity that has no open row in the log of its Project,
\* followed as the next command by the checkin of that entity by that user,
\* leaves no open row for the entity in that log.
C1_RoundTrip == hist.phase = "in" => OpenRows(hist.entity) = {}

C1_Witness ==
    /\ hist.phase = "in"
    /\ out.status = CheckedIn
    /\ \E t \in SytTables(_load_project_for(hist.entity)) :
         \E i \in 1..Len(tables[t].rows) :
            /\ IsClosed(tables[t].rows[i])
            /\ RowEntity(tables[t].rows[i]) = hist.entity
            /\ RowUser(tables[t].rows[i]) = hist.user

\* C2: when commands run one at a time, every log table holds at most one open
\* row per entity.
C2_AtMostOneOpen ==
    \A t \in DOMAIN tables : \A e \in Entities : Cardinality(OpenRowsIn(t, e)) <= 1

C2_Witness ==
    \E t \in DOMAIN tables : \E e \in Entities :
        /\ Len(tables[t].rows) = 2
        /\ \A i \in 1..2 : RowEntity(tables[t].rows[i]) = e
        /\ Cardinality(OpenRowsIn(t, e)) = 1

\* C3: a checkout of an entity that has an open row in the log of its Project
\* writes nothing (no table is created, the rows and the etag of every table
\* stay), makes one query and reports that the entity is already checked out.
C3_Refusal ==
    [][\A s \in Sessions :
          (Runs(s, "checkout") /\ OpenRows(Target(s)) # {}) =>
             /\ tables' = tables
             /\ pc'[s] \in {"checkout", "idle"}
             /\ pc'[s] = "idle" =>
                   /\ out'.status = AlreadyCheckedOut
                   /\ out'.stores = 0
                   /\ out'.queries = 1]_vars

C3_Witness ==
    /\ out.op = "checkout"
    /\ out.status = AlreadyCheckedOut
    /\ \E o \in OpenRows(out.entityId) : RowUser(tables[o[1]].rows[o[2]]) # out.user
    /\ Cardinality(OpenRows(out.entityId)) = 1

\* C4: a checkin of an entity whose open row is held by another user writes
\* nothing and reports that the entity is not checked out; the row stays open.
C4_Ownership ==
    [][\A s \in Sessions :
          (/\ Runs(s, "checkin")
           /\ OpenRows(Target(s)) # {}
           /\ \A o \in OpenRows(Target(s)) :
                 RowUser(tables[o[1]].rows[o[2]]) # Caller(s)) =>
             /\ tables' = tables
             /\ pc'[s] \in {"checkin", "idle"}
             /\ pc'[s] = "idle" =>
                   /\ out'.status = NotCheckedOut
                   /\ out'.stores = 0]_vars

C4_Witness ==
    /\ out.op = "checkin"
    /\ out.status = NotCheckedOut
    /\ \E o \in OpenRows(out.entityId) : RowUser(tables[o[1]].rows[o[2]]) # out.user

\* C5: a checkin whose etag is stale when it stores is rejected and changes no
\* table, and a row once closed is never written again.
C5_ConflictSafety ==
    [][/\ \A s \in Sessions :
            (/\ pc[s] = "store" /\ cmd[s].op = "checkin" /\ pc'[s] = "idle"
             /\ loc[s].etag # tables[syt[s]._table].etag) =>
               /\ tables' = tables
               /\ out'.status = ConflictRaised
       /\ \A t \in DOMAIN tables : \A i \in 1..Len(tables[t].rows) :
            IsClosed(tables[t].rows[i]) => tables'[t].rows[i] = tables[t].rows[i]
      ]_vars

\* Two checkins resolved one open row; the other stored first, this one raised.
C5_Witness ==
    /\ out.op = "checkin"
    /\ out.status = ConflictRaised
    /\ out.row # <<>>
    /\ IsOpen(out.row)
    /\ IsClosed(tables[out.table].rows[out.row[1]])

\* C6: a checkin that raises the conflict has read the log at least twice.
C6_Retried ==
    (out.op = "checkin" /\ out.status = ConflictRaised) => out.queries >= 2

\* C7: checkout or checkin of an entity that is neither Folder nor File ends at
\* once: no table changes, no query and no store is made, the kind is reported.
\* (A command on e leaves e in cmd or in out: the steps that do neither are
\* skipped before the command is compared with the step.)
C7_KindRestriction ==
    [][\A s \in Sessions :
          (pc[s] = "idle" /\ (pc'[s] # "idle" \/ out' # NoOut)) =>
             \A e \in {x \in Entities : entityType[x] \notin {"Folder", "FileEntity"}} :
             (cmd'[s].entityId = e \/ out'.entityId = e) =>
             \A command \in Locking, force \in BOOLEAN :
                (\/ Call(s, syt[s], command, e, force)
                 \/ \E user \in Users : main(s, user, command, e, force)) =>
                   /\ tables' = tables
                   /\ pc'[s] = "idle"
                   /\ out'.status = Aborting
                   /\ out'.type = entityType[e]
                   /\ out'.queries = 0
                   /\ out'.stores = 0]_vars

C7_Witness ==
    /\ out.op \in Locking
    /\ out.status = Aborting
    /\ out.entityId = "L1"
    /\ out.type = "Link"

\* C8: the store of checkout is an insert that is always accepted: it appends
\* the row also when the table changed after the log was read.
C8_Unconditional ==
    [][\A s \in Sessions :
          (pc[s] = "store" /\ cmd[s].op = "checkout" /\ pc'[s] = "idle") =>
             /\ Len(tables'[syt[s]._table].rows) = Len(tables[syt[s]._table].rows) + 1
             /\ out'.status = CheckedOut]_vars

\* Two open rows for one entity in one log table.
C8_Witness ==
    \E t \in DOMAIN tables : \E e \in Entities : Cardinality(OpenRowsIn(t, e)) >= 2

\* C9: the table a command queries and writes is a child of the Project that
\* owns the command's entity.
C9_OwnTable ==
    \A s \in Sessions :
        pc[s] \in {"checkout", "checkin", "log", "store"} =>
            tables[syt[s]._table].parent = syt[s]._project

\* C10: log prints one block per row of its table that it is to show (every row
\* with show_all, else the rows of its entity), in descending checked_out order.
C10_LogFiltering ==
    [][\A s \in Sessions :
          (pc[s] = "log" /\ pc'[s] = "idle") =>
             LET rows == tables[syt[s]._table].rows
                 want == {i \in 1..Len(rows) :
                             out'.show_all \/ rows[i][3] = cmd[s].entityId}
                 n == Len(out'.blocks)
             IN  /\ out'.status = LogShown
                 /\ n = Cardinality(want)
                 /\ \E f \in [1..n -> want] :
                       /\ \A j, k \in 1..n : j # k => f[j] # f[k]
                       /\ \A k \in 1..n : out'.blocks[k] = Tail(rows[f[k]])
                 /\ \A j, k \in 1..n : j < k => out'.blocks[j][3] >= out'.blocks[k][3]
      ]_vars

C10_Witness ==
    /\ out.op = "log"
    /\ ~out.show_all
    /\ Len(out.blocks) = 2
    /\ out.blocks[1][3] > out.blocks[2][3]

C12_Lifecycle ==
    [][/\ Len(tables') >= Len(tables)
       /\ \A t \in DOMAIN tables :
            LET old == tables[t].rows
                new == tables'[t].rows
            IN  /\ Len(new) \in {Len(old), Len(old) + 1}
                /\ Len(new) = Len(old) + 1 =>
                      \E s \in Sessions :
                         /\ pc[s] = "store" /\ cmd[s].op = "checkout"
                         /\ syt[s]._table = t
                         /\ IsOpen(new[Len(new)])
                         /\ RowUser(new[Len(new)]) = syt[s].user
                         /\ RowEntity(new[Len(new)]) = cmd[s].entityId
                /\ \A i \in 1..Len(old) :
                      /\ SubSeq(new[i], 1, 4) = SubSeq(old[i], 1, 4)
                      /\ IsClosed(old[i]) => new[i] = old[i]
                      /\ new[i] # old[i] =>
                            /\ IsClosed(new[i])
                            /\ \E s \in Sessions :
                                  /\ pc[s] = "store" /\ cmd[s].op = "checkin"
                                  /\ syt[s]._table = t
                                  /\ loc[s].row = old[i]]_vars

\* A table with a row that was closed with a message and a row still open.
C12_Witness ==
    \E t \in DOMAIN tables :
        /\ Len(tables[t].rows) = 2
        /\ IsClosed(tables[t].rows[1])
        /\ tables[t].rows[1][6] = "done"
        /\ IsOpen(tables[t].rows[2])

\* C13: no step of a log command changes the tables: none is created, no row
\* and no etag changes.
C13_LogWritesNothing ==
    [][\A s \in Sessions :
          (pc'[s] # pc[s] /\ (cmd[s].op = "log" \/ cmd'[s].op = "log")) =>
             tables' = tables]_vars

\* C14: with commands run one at a time on the entities of one Project, a
\* table named syt_log is created only when the Project has none, an existing
\* one is bound and not created again, and when a command on a Folder or File
\* has returned the Project has exactly one.
C14_OneLogTable ==
    [][LET Logs(tbls, project) ==
              {t \in DOMAIN tbls : /\ tbls[t].parent = project
                                   /\ tbls[t].name = SYT_TABLE_NAME}
       IN  /\ Len(tables') > Len(tables) =>
                 \E s \in Sessions :
                    /\ pc[s] = "_ensure_access_log"
                    /\ Logs(tables, syt[s]._project) = {}
                    /\ Logs(tables', syt[s]._project) = {Len(tables')}
           /\ \A s \in Sessions :
                 (pc[s] = "idle" /\ pc'[s] # "idle"
                    /\ Logs(tables, syt'[s]._project) # {}) =>
                       /\ pc'[s] # "_ensure_access_log"
                       /\ syt'[s]._table \in Logs(tables, syt'[s]._project)
           /\ \A s \in Sessions :
                 (pc[s] # "idle" /\ pc'[s] = "idle") =>
                    Cardinality(Logs(tables', syt[s]._project)) = 1]_vars

\* A command found the log table that an earlier command created, and used it.
C14_Witness ==
    /\ out.op = "log"
    /\ out.stores = 0
    /\ Len(out.blocks) > 0
    /\ SytTables("P1") = {out.table}

\* C15: on every read of the log in ascending checked_out order the resolver
\* returns the etag and the headers of that read and, when a row of the table
\* matches (entity, open, and the caller's when by_user), the first matching
\* row of the read, whose checked_out is the least of the matching rows; when
\* none matches it returns no row.
C15_Resolver ==
    \A s \in Sessions :
        pc[s] \in {"checkout", "checkin"} =>
            \A syt_log \in _load_syt_log(s, "asc"), by_user \in BOOLEAN :
                LET found == _find_checked_out_row(s, syt_log, by_user)
                    rows == tables[syt[s]._table].rows
                    Wanted(row) ==
                        /\ RowEntity(row) = syt[s]._entity
                        /\ IsOpen(row)
                        /\ by_user => RowUser(row) = syt[s].user
                    match == {i \in 1..Len(rows) : Wanted(rows[i])}
                IN  /\ found.etag = tables[syt[s]._table].etag
                    /\ found.headers = Headers
                    /\ (match = {}) <=> (found.row = <<>>)
                    /\ match # {} =>
                          /\ found.row[1] \in match
                          /\ found.row = rows[found.row[1]]
                          /\ \A j \in match : found.row[4] <= rows[j][4]
                          /\ \E k \in 1..Len(syt_log.rows) :
                                /\ syt_log.rows[k] = found.row
                                /\ \A j \in 1..(k - 1) : ~Wanted(syt_log.rows[j])

\* Two open rows of the caller for the entity, checked out at different times:
\* checkin resolved the earlier one.
C15_Witness ==
    \E s \in Sessions :
        /\ pc[s] = "store"
        /\ cmd[s].op = "checkin"
        /\ \E i \in OpenRowsIn(syt[s]._table, cmd[s].entityId) :
              /\ RowUser(tables[syt[s]._table].rows[i]) = syt[s].user
              /\ tables[syt[s]._table].rows[i][4] > loc[s].row[4]

\* C16 (as the code has it): a checkin that succeeds changes one row only, in
\* its table only: an open row of its entity held by its caller whose
\* checked_out is the least among such rows, and closes it.
C16_EarliestClosed ==
    [][\A s \in Sessions :
          (/\ pc[s] = "store" /\ cmd[s].op = "checkin"
           /\ pc'[s] = "idle" /\ out'.status = CheckedIn) =>
             LET t == syt[s]._table
                 rows == tables[t].rows
                 mine == {i \in OpenRowsIn(t, cmd[s].entityId) :
                             RowUser(rows[i]) = syt[s].user}
                 changed == {i \in 1..Len(rows) : tables'[t].rows[i] # rows[i]}
             IN  /\ \A u \in DOMAIN tables \ {t} : tables'[u] = tables[u]
                 /\ Len(tables') = Len(tables)
                 /\ Len(tables'[t].rows) = Len(rows)
                 /\ Cardinality(changed) = 1
                 /\ changed \subseteq mine
                 /\ \A i \in changed : IsClosed(tables'[t].rows[i])
                 /\ \A i \in changed, j \in mine : rows[i][4] <= rows[j][4]]_vars

\* Of two open rows of one user for one entity the earlier was checked in, the
\* later is still open.
C16_Witness ==
    /\ out.op = "checkin"
    /\ out.status = CheckedIn
    /\ \E i \in OpenRowsIn(out.table, out.entityId) :
          /\ RowUser(tables[out.table].rows[i]) = out.user
          /\ tables[out.table].rows[i][4] > out.row[4]

\* C16 (as stated): the row a successful checkin changes has the greatest
\* checked_out among the open rows of its entity held by its caller.
C16_MostRecentClosed ==
    [][\A s \in Sessions :
          (/\ pc[s] = "store" /\ cmd[s].op = "checkin"
           /\ pc'[s] = "idle" /\ out'.status = CheckedIn) =>
             LET t == syt[s]._table
                 rows == tables[t].rows
                 mine == {i \in OpenRowsIn(t, cmd[s].entityId) :
                             RowUser(rows[i]) = syt[s].user}
                 changed == {i \in 1..Len(rows) : tables'[t].rows[i] # rows[i]}
             IN  \A i \in changed, j \in mine : rows[i][4] >= rows[j][4]]_vars

\* C17: in every log every closed row has checked_in >= checked_out.
C17_ClockStamps ==
    \A t \in DOMAIN tables : \A i \in 1..Len(tables[t].rows) :
        IsClosed(tables[t].rows[i]) => tables[t].rows[i][5] >= tables[t].rows[i][4]

\* C18: the creation step of _ensure_access_log stores a new table named
\* syt_log under the Project whatever was created there since the session
\* listed the tables, and binds it.
C18_CreateUnconditional ==
    [][\A s \in Sessions :
          (pc[s] = "_ensure_access_log" /\ pc'[s] # pc[s]) =>
             /\ Len(tables') = Len(tables) + 1
             /\ tables'[Len(tables')] = NewSchema(syt[s]._project)
             /\ syt'[s]._table = Len(tables')]_vars

\* Two tables named syt_log under one Project.
C18_Witness == \E project \in Entities : Cardinality(SytTables(project)) >= 2

\* C19: in every hierarchy without cycles whose root is a Project, the walk
\* from a Folder or File ends; it gets the parent, then the parent of what it
\* got, no entity twice; all it gets before the last are not Projects and the
\* last, which it returns, is a Project: the nearest Project above the entity.
C19_Walk ==
    walk.child # 0 =>
        LET visited == walk.visited
            n == Len(visited)
        IN  /\ n >= 1
            /\ n <= MaxNodes - 1
            /\ visited[1] = walk.parentId[walk.child]
            /\ \A k \in 1..(n - 1) : visited[k + 1] = walk.parentId[visited[k]]
            /\ \A j, k \in 1..n : j # k => visited[j] # visited[k]
            /\ \A k \in 1..(n - 1) : walk.entityType[visited[k]] # "Project"
            /\ walk.entityType[visited[n]] = "Project"

\* A walk of two steps that ends at a Project which is not the root.
C19_Witness ==
    /\ walk.child # 0
    /\ Len(walk.visited) = 2
    /\ walk.visited[2] # 1
    /\ walk.entityType[walk.visited[2]] = "Project"

====
